---- MODULE Spec2Model ----
(***************************************************************************)
(* A model of the e-learning backend (src/main.py): a FastAPI application  *)
(* whose handlers map one HTTP request to one or two SQL statements on a   *)
(* MySQL database and, for uploads, to a file written under uploads/.      *)
(*                                                                         *)
(* State: the seven tables, the AUTO_INCREMENT counters, the files on      *)
(* disk, the wall clock, the requests that are part-way through a handler  *)
(* made of several store steps, and the last response sent.                *)
(*                                                                         *)
(* The schema (unique keys, foreign keys, ON DELETE CASCADE) is not part   *)
(* of main.py; the operators that stand for it are taken from the          *)
(* specification's data model and are marked so in MODEL_MAP.json.         *)
(***************************************************************************)
EXTENDS Integers, Sequences, FiniteSets, TLC

(* ------------------------------ bounds -------------------------------- *)
MaxCourses == 1
MaxMaterials == 2
MaxAssignments == 2
MaxAnnouncements == 1
MaxTime == 2

(* --------------------------- input domains ---------------------------- *)
Emails == {"a@x", "b@x"}
Passwords == {"pw1", "pw2"}
Names == {"Ann", "Bob"}
Roles == {"instructor", "student"}
Contents == {"", "text"}

\* users.id never exceeds the number of emails: users.email is unique
UserIds == 1..Cardinality(Emails)
CourseIds == 1..MaxCourses
MaterialIds == 1..MaxMaterials
AssignmentIds == 1..MaxAssignments
AnnouncementIds == 1..MaxAnnouncements

\* Optional[int] = None: `if user_id:` is false for None and for 0 alike.
NoId == 0

\* SQL NULL / Python None in a nullable column or an Optional value.
NULL == [null |-> TRUE]

\* Optional[UploadFile] = File(None)
NoFile == [nofile |-> TRUE]
\* file.filename, as os.path.splitext splits it: (stem, extension)
Filenames == {[stem |-> "clip", ext |-> ".mp4"], [stem |-> "sub/notes", ext |-> ".pdf"]}
Uploads == {NoFile} \cup Filenames

VARIABLES
    users,          \* table users
    courses,        \* table courses
    enrollments,    \* table enrollments (committed rows)
    materials,      \* table materials
    announcements,  \* table announcements
    assignments,    \* table assignments
    submissions,    \* table submissions
    autoinc,        \* AUTO_INCREMENT: last id handed out, per table
    disk,           \* relative paths of the files present under uploads/
    now,            \* the clock read by datetime.now() and CURRENT_TIMESTAMP
    proc,           \* per worker: the request it is part-way through
    resp            \* the response sent last, with its request

tables == <<users, courses, enrollments, materials, announcements, assignments, submissions>>
vars == <<users, courses, enrollments, materials, announcements, assignments,
          submissions, autoinc, disk, now, proc, resp>>

Procs == {"w1", "w2"}
Idle == [pc |-> "idle", op |-> "none"]
\* the one of them that is the event loop, where the `async def` handlers run
EventLoop == "w1"

(* ------------------------------ helpers ------------------------------- *)

\* hashlib.sha256(password.encode()).hexdigest(): a deterministic digest,
\* never the plaintext; distinct passwords have distinct digests.
hash_password(password) == [sha256 |-> password]

\* A path under uploads/: f"uploads/{dir}/{prefix}_{a}[_{b}]_{ts}[_]{filename}"
\* preceded by `lead` slashes.
Path(dir, prefix, a, b, ts, file) ==
    [lead |-> 0, dir |-> dir, prefix |-> prefix, a |-> a, b |-> b, ts |-> ts,
     stem |-> file.stem, ext |-> file.ext]

\* the directory part of a filename sent by the client, "" when it has none
dirname(file) == CASE file.stem = "sub/notes" -> "sub"
                   [] OTHER -> ""

\* open(path, "wb") finds the directory of the path: only uploads/materials,
\* uploads/submissions and uploads/profiles were made, so a filename with a
\* directory part names a directory that is not there (FileNotFoundError)
Opens(path) == dirname(path) = ""

\* f"/{file_path}"
Slash(path) == [path EXCEPT !.lead = @ + 1]

\* str.lstrip('/'): drops every leading slash
lstrip(path) == [path EXCEPT !.lead = 0]

\* The response of a handler: the HTTP status, the JSON body, and the number
\* of connections from get_db() the handler has not closed on its way out.
Respond(req, status, body, conn) ==
    resp' = [seq |-> 1 - resp.seq, req |-> req, status |-> status,
             body |-> body, conn |-> conn]

\* HTTPException(status_code, detail)
Detail(text) == [detail |-> text]

\* An `async def` handler runs on the event loop and never awaits: no other
\* `async def` handler starts or continues while one is part-way. The `def`
\* handlers run on worker threads and interleave with it and with each other.
LoopFree(p) == \A q \in Procs \ {p} : proc[q].op # "update_material"

\* UNIQUE(users.email)
EmailTaken(email) == \E u \in users : u.email = email

\* SELECT id, email, full_name, role, profile_picture
Profile(u) == [id |-> u.id, email |-> u.email, full_name |-> u.full_name,
               role |-> u.role, profile_picture |-> u.profile_picture]

(* ------------------------------- Init --------------------------------- *)
Init ==
    /\ users = {}
    /\ courses = {}
    /\ enrollments = {}
    /\ materials = {}
    /\ announcements = {}
    /\ assignments = {}
    /\ submissions = {}
    /\ autoinc = [users |-> 0, courses |-> 0, enrollments |-> 0, materials |-> 0,
                  announcements |-> 0, assignments |-> 0, submissions |-> 0]
    /\ disk = {}
    /\ now = 0
    /\ proc = [p \in Procs |-> Idle]
    /\ resp = [seq |-> 0, req |-> [op |-> "none"], status |-> 0,
               body |-> NULL, conn |-> 0]

(* ------------------------------ accounts ------------------------------ *)

UserRegisters ==
    [email : Emails, password : Passwords, full_name : {"Ann"}, role : Roles]
UserLogins == [email : Emails, password : Passwords]
ProfileFiles == {NoFile, [stem |-> "me", ext |-> ".png"]}

\* register without the `except mysql.connector.IntegrityError` clause
register_generic_failure(user) ==
    LET req == [op |-> "register", user |-> user]
        hashed_pw == hash_password(user.password)
        user_id == autoinc.users + 1
    IN  IF EmailTaken(user.email)
        THEN /\ Respond(req, 500, Detail("Duplicate entry"), 1)
             /\ UNCHANGED <<tables, autoinc, disk, now, proc>>
        ELSE /\ users' = users \cup
                    {[id |-> user_id, email |-> user.email, password |-> hashed_pw,
                      full_name |-> user.full_name, role |-> user.role,
                      profile_picture |-> NULL]}
             /\ autoinc' = [autoinc EXCEPT !.users = user_id]
             /\ Respond(req, 200, [success |-> TRUE, user_id |-> user_id], 0)
             /\ UNCHANGED <<courses, enrollments, materials, announcements,
                            assignments, submissions, disk, now, proc>>

\* POST /api/register
register(user) ==
    LET req == [op |-> "register", user |-> user]
        hashed_pw == hash_password(user.password)
        user_id == autoinc.users + 1
    IN  IF EmailTaken(user.email)
        THEN \* mysql.connector.IntegrityError: the handler leaves without db.close()
             /\ Respond(req, 400, Detail("Email already exists"), 1)
             /\ UNCHANGED <<tables, autoinc, disk, now, proc>>
        ELSE /\ users' = users \cup
                    {[id |-> user_id, email |-> user.email, password |-> hashed_pw,
                      full_name |-> user.full_name, role |-> user.role,
                      profile_picture |-> NULL]}
             /\ autoinc' = [autoinc EXCEPT !.users = user_id]
             /\ Respond(req, 200, [success |-> TRUE, user_id |-> user_id], 0)
             /\ UNCHANGED <<courses, enrollments, materials, announcements,
                            assignments, submissions, disk, now, proc>>

\* login whose SELECT matches on the email alone
login_email_only(user) ==
    LET req == [op |-> "login", user |-> user]
        result == {u \in users : u.email = user.email}
    IN  /\ IF result # {}
           THEN Respond(req, 200,
                        [success |-> TRUE, user |-> Profile(CHOOSE u \in result : TRUE)], 0)
           ELSE Respond(req, 401, Detail("Invalid credentials"), 0)
        /\ UNCHANGED <<tables, autoinc, disk, now, proc>>

\* POST /api/login
login(user) ==
    LET req == [op |-> "login", user |-> user]
        hashed_pw == hash_password(user.password)
        result == {u \in users : u.email = user.email /\ u.password = hashed_pw}
    IN  /\ IF result # {}
           THEN Respond(req, 200,
                        [success |-> TRUE, user |-> Profile(CHOOSE u \in result : TRUE)], 0)
           ELSE Respond(req, 401, Detail("Invalid credentials"), 0)
        /\ UNCHANGED <<tables, autoinc, disk, now, proc>>

\* GET /api/profile/{user_id}
get_profile(user_id) ==
    LET req == [op |-> "get_profile", id |-> user_id]
        result == {u \in users : u.id = user_id}
    IN  /\ IF result # {}
           THEN Respond(req, 200, Profile(CHOOSE u \in result : TRUE), 0)
           ELSE \* the HTTPException(404) is raised inside the try and caught by
                \* `except Exception`, which re-raises it as a 500
                Respond(req, 500, Detail("404: User not found"), 0)
        /\ UNCHANGED <<tables, autoinc, disk, now, proc>>

\* POST /api/profile/{user_id}/update
update_profile(user_id, full_name, file) ==
    LET req == [op |-> "update_profile", id |-> user_id, full_name |-> full_name,
                file |-> file]
        file_path == Path("profiles", "profile", user_id, 0, now, [stem |-> "", ext |-> file.ext])
        profile_picture == IF file # NoFile THEN Slash(file_path) ELSE NULL
    IN  /\ \A q \in Procs : LoopFree(q)
        /\ IF file # NoFile
           THEN /\ now < MaxTime
                /\ now' = now + 1
                /\ disk' = disk \cup {file_path}
                /\ users' = {IF u.id = user_id
                             THEN [u EXCEPT !.full_name = full_name,
                                            !.profile_picture = profile_picture]
                             ELSE u : u \in users}
           ELSE /\ users' = {IF u.id = user_id
                             THEN [u EXCEPT !.full_name = full_name]
                             ELSE u : u \in users}
                /\ UNCHANGED <<disk, now>>
        /\ Respond(req, 200, [success |-> TRUE, profile_picture |-> profile_picture], 0)
        /\ UNCHANGED <<courses, enrollments, materials, announcements, assignments,
                       submissions, autoinc, proc>>

NextAuth ==
    \/ \E user \in UserRegisters : register(user)
    \/ \E user \in UserLogins : login(user)
    \/ \E user_id \in UserIds : get_profile(user_id)
    \/ \E user_id \in UserIds, full_name \in Names, file \in ProfileFiles :
            update_profile(user_id, full_name, file)

SpecAuth == Init /\ [][NextAuth]_vars
(* ------------------------------ courses ------------------------------- *)

\* FOREIGN KEY ... REFERENCES users(id)
UserExists(user_id) == \E u \in users : u.id = user_id

\* FOREIGN KEY ... REFERENCES courses(id)
CourseExists(course_id) == \E c \in courses : c.id = course_id

\* UNIQUE(enrollments.course_id, enrollments.student_id)
Enrolled(course_id, student_id) ==
    \E e \in enrollments : e.course_id = course_id /\ e.student_id = student_id

\* The unique-index lock of an INSERT that is not committed yet: another
\* INSERT of the same key waits for that transaction to end.
EnrollLocked(p, course_id, student_id) ==
    \E q \in Procs \ {p} :
        /\ proc[q].pc = "commit"
        /\ proc[q].op = "enroll_course"
        /\ proc[q].row.course_id = course_id
        /\ proc[q].row.student_id = student_id

CourseRegisters ==
    {[email |-> "a@x", password |-> "pw1", full_name |-> "Ann", role |-> "instructor"],
     [email |-> "b@x", password |-> "pw1", full_name |-> "Bob", role |-> "student"]}
Courses == [title : {"t1"}, description : {"d1"}]

\* POST /api/courses
create_course(course, instructor_id) ==
    LET req == [op |-> "create_course", course |-> course, instructor_id |-> instructor_id]
        course_id == autoinc.courses + 1
    IN  /\ autoinc.courses < MaxCourses
        /\ IF ~UserExists(instructor_id)
           THEN \* IntegrityError (foreign key), caught by `except Exception`
                /\ Respond(req, 500, Detail("foreign key constraint fails"), 1)
                /\ UNCHANGED <<courses, autoinc>>
           ELSE /\ courses' = courses \cup
                        {[id |-> course_id, title |-> course.title,
                          description |-> course.description,
                          instructor_id |-> instructor_id]}
                /\ autoinc' = [autoinc EXCEPT !.courses = course_id]
                /\ Respond(req, 200, [success |-> TRUE, course_id |-> course_id], 0)
        /\ UNCHANGED <<users, enrollments, materials, announcements, assignments,
                       submissions, disk, now, proc>>

\* get_course whose is_enrolled is forced to false for the instructor
get_course_instructor_not_enrolled(course_id, user_id) ==
    LET req == [op |-> "get_course", id |-> course_id, user_id |-> user_id]
        found == {c \in courses : c.id = course_id /\ UserExists(c.instructor_id)}
    IN  /\ IF found = {}
           THEN Respond(req, 404, Detail("Course not found"), 1)
           ELSE LET course == CHOOSE c \in found : TRUE
                    instructor == CHOOSE u \in users : u.id = course.instructor_id
                    is_instructor == user_id # NoId /\ course.instructor_id = user_id
                    is_enrolled == /\ user_id # NoId
                                   /\ Enrolled(course_id, user_id)
                                   /\ ~is_instructor
                IN  Respond(req, 200,
                            [id |-> course.id, title |-> course.title,
                             description |-> course.description,
                             instructor_id |-> course.instructor_id,
                             instructor_name |-> instructor.full_name,
                             is_enrolled |-> is_enrolled,
                             is_instructor |-> is_instructor], 0)
        /\ UNCHANGED <<tables, autoinc, disk, now, proc>>

\* GET /api/courses/{course_id}
get_course(course_id, user_id) ==
    LET req == [op |-> "get_course", id |-> course_id, user_id |-> user_id]
        \* FROM courses c JOIN users u ON c.instructor_id = u.id WHERE c.id = %s
        found == {c \in courses : c.id = course_id /\ UserExists(c.instructor_id)}
    IN  /\ IF found = {}
           THEN \* raised before cursor.close() and db.close(), passed on by
                \* `except HTTPException: raise`
                Respond(req, 404, Detail("Course not found"), 1)
           ELSE LET course == CHOOSE c \in found : TRUE
                    instructor == CHOOSE u \in users : u.id = course.instructor_id
                    is_enrolled == user_id # NoId /\ Enrolled(course_id, user_id)
                    is_instructor == user_id # NoId /\ course.instructor_id = user_id
                IN  Respond(req, 200,
                            [id |-> course.id, title |-> course.title,
                             description |-> course.description,
                             instructor_id |-> course.instructor_id,
                             instructor_name |-> instructor.full_name,
                             is_enrolled |-> is_enrolled,
                             is_instructor |-> is_instructor], 0)
        /\ UNCHANGED <<tables, autoinc, disk, now, proc>>

\* POST /api/courses/{course_id}/enroll: the request arrives, get_db()
enroll_course_begin(p, course_id, student_id) ==
    /\ proc[p] = Idle
    /\ proc' = [proc EXCEPT ![p] = [pc |-> "execute", op |-> "enroll_course",
                                    course_id |-> course_id,
                                    student_id |-> student_id]]
    /\ UNCHANGED <<tables, autoinc, disk, now, resp>>

\* enroll_course that answers a refused INSERT like an accepted one
enroll_course_execute_swallow(p) ==
    LET course_id == proc[p].course_id
        student_id == proc[p].student_id
        req == [op |-> "enroll_course", course_id |-> course_id, student_id |-> student_id]
        id == autoinc.enrollments + 1
    IN  /\ proc[p].pc = "execute"
        /\ proc[p].op = "enroll_course"
        /\ ~EnrollLocked(p, course_id, student_id)
        /\ IF \/ Enrolled(course_id, student_id)
              \/ ~CourseExists(course_id)
              \/ ~UserExists(student_id)
           THEN /\ Respond(req, 200, [success |-> TRUE], 0)
                /\ proc' = [proc EXCEPT ![p] = Idle]
                /\ UNCHANGED autoinc
           ELSE /\ proc' = [proc EXCEPT ![p] =
                        [pc |-> "commit", op |-> "enroll_course",
                         row |-> [id |-> id, course_id |-> course_id,
                                  student_id |-> student_id, enrolled_at |-> now]]]
                /\ autoinc' = [autoinc EXCEPT !.enrollments = id]
                /\ UNCHANGED resp
        /\ UNCHANGED <<tables, disk, now>>

\* cursor.execute("INSERT INTO enrollments ..."), and the IntegrityError clause
enroll_course_execute(p) ==
    LET course_id == proc[p].course_id
        student_id == proc[p].student_id
        req == [op |-> "enroll_course", course_id |-> course_id, student_id |-> student_id]
        id == autoinc.enrollments + 1
    IN  /\ proc[p].pc = "execute"
        /\ proc[p].op = "enroll_course"
        /\ ~EnrollLocked(p, course_id, student_id)
        /\ IF \/ Enrolled(course_id, student_id)
              \/ ~CourseExists(course_id)
              \/ ~UserExists(student_id)
           THEN \* mysql.connector.IntegrityError: leaves without db.close()
                /\ Respond(req, 400, Detail("Already enrolled"), 1)
                /\ proc' = [proc EXCEPT ![p] = Idle]
                /\ UNCHANGED autoinc
           ELSE /\ proc' = [proc EXCEPT ![p] =
                        [pc |-> "commit", op |-> "enroll_course",
                         row |-> [id |-> id, course_id |-> course_id,
                                  student_id |-> student_id, enrolled_at |-> now]]]
                /\ autoinc' = [autoinc EXCEPT !.enrollments = id]
                /\ UNCHANGED resp
        /\ UNCHANGED <<tables, disk, now>>

\* db.commit(), cursor.close(), db.close(), return
enroll_course_commit(p) ==
    LET row == proc[p].row
        req == [op |-> "enroll_course", course_id |-> row.course_id,
                student_id |-> row.student_id]
    IN  /\ proc[p].pc = "commit"
        /\ proc[p].op = "enroll_course"
        /\ enrollments' = enrollments \cup {row}
        /\ Respond(req, 200, [success |-> TRUE], 0)
        /\ proc' = [proc EXCEPT ![p] = Idle]
        /\ UNCHANGED <<users, courses, materials, announcements, assignments,
                       submissions, autoinc, disk, now>>

NextCourse ==
    \/ \E user \in CourseRegisters : register(user)
    \/ \E course \in Courses, instructor_id \in UserIds : create_course(course, instructor_id)
    \/ \E course_id \in CourseIds, user_id \in {NoId} \cup UserIds :
            get_course(course_id, user_id)
    \/ \E p \in Procs, course_id \in CourseIds, student_id \in UserIds :
            enroll_course_begin(p, course_id, student_id)
    \/ \E p \in Procs : enroll_course_execute(p)
    \/ \E p \in Procs : enroll_course_commit(p)

SpecCourse == Init /\ [][NextCourse]_vars

(* ------------------------------ materials ----------------------------- *)

\* str.lower() of a file extension
Lower(ext) == CASE ext = ".PDF" -> ".pdf"
                [] ext = ".MP4" -> ".mp4"
                [] OTHER -> ext

\* file_type from os.path.splitext(file.filename)[1].lower()
FileType(file) ==
    LET file_extension == Lower(file.ext) IN
    IF file_extension = ".pdf" THEN "pdf"
    ELSE IF file_extension \in {".mp4", ".avi", ".mov", ".wmv"} THEN "video"
    ELSE "other"

\* the file of an upload_material request
UploadFiles == {[stem |-> "notes", ext |-> ".PDF"]}

OwnerRegisters ==
    {[email |-> "a@x", password |-> "pw1", full_name |-> "Ann", role |-> "instructor"]}

\* upload_material that takes the written file back when the INSERT fails
upload_material_rollback(course_id, title, file) ==
    LET req == [op |-> "upload_material", course_id |-> course_id, title |-> title,
                file |-> file]
        file_type == FileType(file)
        file_path == Path("materials", "material", course_id, 0, now, file)
        id == autoinc.materials + 1
    IN  /\ \A q \in Procs : LoopFree(q)
        /\ autoinc.materials < MaxMaterials
        /\ now < MaxTime
        /\ now' = now + 1
        /\ IF ~CourseExists(course_id)
           THEN /\ Respond(req, 500, Detail("foreign key constraint fails"), 1)
                /\ UNCHANGED <<materials, autoinc, disk>>
           ELSE /\ disk' = disk \cup {file_path}
                /\ materials' = materials \cup
                        {[id |-> id, course_id |-> course_id, title |-> title,
                          file_path |-> Slash(file_path), file_type |-> file_type,
                          uploaded_at |-> now]}
                /\ autoinc' = [autoinc EXCEPT !.materials = id]
                /\ Respond(req, 200, [success |-> TRUE], 0)
        /\ UNCHANGED <<users, courses, enrollments, announcements, assignments,
                       submissions, proc>>

\* POST /api/courses/{course_id}/materials
upload_material(course_id, title, file) ==
    LET req == [op |-> "upload_material", course_id |-> course_id, title |-> title,
                file |-> file]
        file_type == FileType(file)
        file_path == Path("materials", "material", course_id, 0, now, file)
        id == autoinc.materials + 1
    IN  /\ \A q \in Procs : LoopFree(q)
        /\ autoinc.materials < MaxMaterials
        /\ now < MaxTime
        /\ now' = now + 1
        /\ disk' = disk \cup {file_path}
        /\ IF ~CourseExists(course_id)
           THEN \* IntegrityError (foreign key), caught by `except Exception`;
                \* the file written above stays
                /\ Respond(req, 500, Detail("foreign key constraint fails"), 1)
                /\ UNCHANGED <<materials, autoinc>>
           ELSE /\ materials' = materials \cup
                        {[id |-> id, course_id |-> course_id, title |-> title,
                          file_path |-> Slash(file_path), file_type |-> file_type,
                          uploaded_at |-> now]}
                /\ autoinc' = [autoinc EXCEPT !.materials = id]
                /\ Respond(req, 200, [success |-> TRUE], 0)
        /\ UNCHANGED <<users, courses, enrollments, announcements, assignments,
                       submissions, proc>>

\* GET /api/materials/{material_id}
get_material(material_id) ==
    LET req == [op |-> "get_material", id |-> material_id]
        found == {m \in materials : m.id = material_id}
    IN  /\ IF found # {}
           THEN Respond(req, 200, CHOOSE m \in found : TRUE, 0)
           ELSE Respond(req, 404, Detail("Material not found"), 0)
        /\ UNCHANGED <<tables, autoinc, disk, now, proc>>

\* PUT /api/materials/{material_id}: get_db(), SELECT * FROM materials WHERE id
update_material_select(p, material_id, title, file) ==
    LET req == [op |-> "update_material", id |-> material_id, title |-> title,
                file |-> file]
        found == {m \in materials : m.id = material_id}
    IN  /\ proc[p] = Idle
        /\ LoopFree(p)
        /\ IF found = {}
           THEN \* raised before db.close(), passed on by `except HTTPException`
                /\ Respond(req, 404, Detail("Material not found"), 1)
                /\ UNCHANGED proc
           ELSE LET current_material == CHOOSE m \in found : TRUE IN
                /\ proc' = [proc EXCEPT ![p] =
                        [pc |-> IF file # NoFile THEN "exists" ELSE "update",
                         op |-> "update_material", req |-> req,
                         course_id |-> current_material.course_id,
                         old_file_path |-> lstrip(current_material.file_path),
                         file_path |-> current_material.file_path]]
                /\ UNCHANGED resp
        /\ UNCHANGED <<tables, autoinc, disk, now>>

\* if os.path.exists(old_file_path):
update_material_exists(p) ==
    /\ proc[p].pc = "exists"
    /\ proc[p].op = "update_material"
    /\ proc' = [proc EXCEPT ![p].pc =
                    IF proc[p].old_file_path \in disk THEN "remove" ELSE "write"]
    /\ UNCHANGED <<tables, autoinc, disk, now, resp>>

\* os.remove(old_file_path)
update_material_remove(p) ==
    /\ proc[p].pc = "remove"
    /\ proc[p].op = "update_material"
    /\ IF proc[p].old_file_path \in disk
       THEN /\ disk' = disk \ {proc[p].old_file_path}
            /\ proc' = [proc EXCEPT ![p].pc = "write"]
            /\ UNCHANGED resp
       ELSE \* FileNotFoundError, caught by `except Exception`
            /\ Respond(proc[p].req, 500, Detail("No such file or directory"), 1)
            /\ proc' = [proc EXCEPT ![p] = Idle]
            /\ UNCHANGED disk
    /\ UNCHANGED <<tables, autoinc, now>>

\* open(file_path, "wb"), shutil.copyfileobj
update_material_write(p) ==
    LET file_path == Path("materials", "material", proc[p].course_id, 0, now,
                          proc[p].req.file)
    IN  /\ proc[p].pc = "write"
        /\ proc[p].op = "update_material"
        /\ IF Opens(file_path)
           THEN /\ now < MaxTime
                /\ now' = now + 1
                /\ disk' = disk \cup {file_path}
                /\ proc' = [proc EXCEPT ![p].pc = "update",
                                        ![p].file_path = Slash(file_path)]
                /\ UNCHANGED resp
           ELSE \* FileNotFoundError, caught by `except Exception`; the old
                \* file is gone and the row was not touched
                /\ Respond(proc[p].req, 500, Detail("No such file or directory"), 1)
                /\ proc' = [proc EXCEPT ![p] = Idle]
                /\ UNCHANGED <<disk, now>>
        /\ UNCHANGED <<tables, autoinc>>

\* update_material that stores the new path but keeps the old file_type
update_material_update_keep_type(p) ==
    LET req == proc[p].req IN
    /\ proc[p].pc = "update"
    /\ proc[p].op = "update_material"
    /\ materials' =
        {IF m.id = req.id
         THEN IF req.file # NoFile
              THEN [m EXCEPT !.title = req.title, !.file_path = proc[p].file_path]
              ELSE [m EXCEPT !.title = req.title]
         ELSE m : m \in materials}
    /\ Respond(req, 200, [success |-> TRUE], 0)
    /\ proc' = [proc EXCEPT ![p] = Idle]
    /\ UNCHANGED <<users, courses, enrollments, announcements, assignments,
                   submissions, autoinc, disk, now>>

\* UPDATE materials SET ... WHERE id, db.commit(), db.close(), return
update_material_update(p) ==
    LET req == proc[p].req IN
    /\ proc[p].pc = "update"
    /\ proc[p].op = "update_material"
    /\ materials' =
        {IF m.id = req.id
         THEN IF req.file # NoFile
              THEN [m EXCEPT !.title = req.title, !.file_path = proc[p].file_path,
                             !.file_type = FileType(req.file)]
              ELSE [m EXCEPT !.title = req.title]
         ELSE m : m \in materials}
    /\ Respond(req, 200, [success |-> TRUE], 0)
    /\ proc' = [proc EXCEPT ![p] = Idle]
    /\ UNCHANGED <<users, courses, enrollments, announcements, assignments,
                   submissions, autoinc, disk, now>>

\* DELETE /api/materials/{material_id}: get_db(), SELECT file_path
delete_material_select(p, material_id) ==
    LET req == [op |-> "delete_material", id |-> material_id]
        found == {m \in materials : m.id = material_id}
    IN  /\ proc[p] = Idle
        /\ IF found = {}
           THEN /\ Respond(req, 200, [success |-> TRUE], 0)
                /\ UNCHANGED proc
           ELSE LET material == CHOOSE m \in found : TRUE IN
                /\ proc' = [proc EXCEPT ![p] =
                        [pc |-> "exists", op |-> "delete_material", req |-> req,
                         file_path |-> lstrip(material.file_path)]]
                /\ UNCHANGED resp
        /\ UNCHANGED <<tables, autoinc, disk, now>>

\* if os.path.exists(file_path):
delete_material_exists(p) ==
    /\ proc[p].pc = "exists"
    /\ proc[p].op = "delete_material"
    /\ proc' = [proc EXCEPT ![p].pc =
                    IF proc[p].file_path \in disk THEN "remove" ELSE "delete"]
    /\ UNCHANGED <<tables, autoinc, disk, now, resp>>

\* delete_material that leaves the physical file where it is
delete_material_remove_skipped(p) ==
    /\ proc[p].pc = "remove"
    /\ proc[p].op = "delete_material"
    /\ proc' = [proc EXCEPT ![p].pc = "delete"]
    /\ UNCHANGED <<tables, autoinc, disk, now, resp>>

\* os.remove(file_path)
delete_material_remove(p) ==
    /\ proc[p].pc = "remove"
    /\ proc[p].op = "delete_material"
    /\ IF proc[p].file_path \in disk
       THEN /\ disk' = disk \ {proc[p].file_path}
            /\ proc' = [proc EXCEPT ![p].pc = "delete"]
            /\ UNCHANGED resp
       ELSE \* FileNotFoundError, caught by `except Exception`
            /\ Respond(proc[p].req, 500, Detail("No such file or directory"), 1)
            /\ proc' = [proc EXCEPT ![p] = Idle]
            /\ UNCHANGED disk
    /\ UNCHANGED <<tables, autoinc, now>>

\* DELETE FROM materials WHERE id, db.commit(), db.close(), return
delete_material_delete(p) ==
    /\ proc[p].pc = "delete"
    /\ proc[p].op = "delete_material"
    /\ materials' = {m \in materials : m.id # proc[p].req.id}
    /\ Respond(proc[p].req, 200, [success |-> TRUE], 0)
    /\ proc' = [proc EXCEPT ![p] = Idle]
    /\ UNCHANGED <<users, courses, enrollments, announcements, assignments,
                   submissions, autoinc, disk, now>>

NextMaterial ==
    \/ \E user \in OwnerRegisters : register(user)
    \/ \E course \in Courses : courses = {} /\ create_course(course, 1)
    \/ \E file \in UploadFiles : upload_material(1, "t1", file)
    \/ \E material_id \in MaterialIds : get_material(material_id)
    \/ \E material_id \in MaterialIds, file \in Uploads :
            update_material_select(EventLoop, material_id, "t2", file)
    \/ \E p \in Procs : update_material_exists(p)
    \/ \E p \in Procs : update_material_remove(p)
    \/ \E p \in Procs : update_material_write(p)
    \/ \E p \in Procs : update_material_update(p)
    \/ \E p \in Procs, material_id \in MaterialIds : delete_material_select(p, material_id)
    \/ \E p \in Procs : delete_material_exists(p)
    \/ \E p \in Procs : delete_material_remove(p)
    \/ \E p \in Procs : delete_material_delete(p)

SpecMaterial == Init /\ [][NextMaterial]_vars

(* ------------------------------ assignments --------------------------- *)

\* UNIQUE(submissions.assignment_id, submissions.student_id)
Submitted(assignment_id, student_id) ==
    {s \in submissions : s.assignment_id = assignment_id /\ s.student_id = student_id}

\* FOREIGN KEY (assignment_id) REFERENCES assignments(id) ON DELETE CASCADE
Cascade(assignment_id) == {s \in submissions : s.assignment_id # assignment_id}

AssignmentFiles == {NoFile, [stem |-> "notes", ext |-> ".PDF"]}

\* Time passes between two requests.
Tick ==
    /\ now < MaxTime
    /\ now' = now + 1
    /\ UNCHANGED <<tables, autoinc, disk, proc, resp>>

\* POST /api/courses/{course_id}/assignments
create_assignment(course_id, title, description, due_date, file) ==
    LET req == [op |-> "create_assignment", course_id |-> course_id, title |-> title,
                description |-> description, due_date |-> due_date, file |-> file]
        path == Path("materials", "assignment", course_id, 0, now, file)
        file_path == IF file # NoFile THEN Slash(path) ELSE NULL
        assignment_id == autoinc.assignments + 1
    IN  /\ \A q \in Procs : LoopFree(q)
        /\ autoinc.assignments < MaxAssignments
        /\ IF ~CourseExists(course_id)
           THEN \* cursor.close(), db.close(), then the 404
                /\ Respond(req, 404, Detail("Course not found"), 0)
                /\ UNCHANGED <<assignments, autoinc, disk, now>>
           ELSE /\ IF file # NoFile
                   THEN /\ now < MaxTime
                        /\ now' = now + 1
                        /\ disk' = disk \cup {path}
                   ELSE UNCHANGED <<disk, now>>
                /\ assignments' = assignments \cup
                        {[id |-> assignment_id, course_id |-> course_id, title |-> title,
                          description |-> description, due_date |-> due_date,
                          instruction_file |-> file_path]}
                /\ autoinc' = [autoinc EXCEPT !.assignments = assignment_id]
                /\ Respond(req, 200, [success |-> TRUE, assignment_id |-> assignment_id], 0)
        /\ UNCHANGED <<users, courses, enrollments, materials, announcements,
                       submissions, proc>>

\* GET /api/assignments/{assignment_id}
get_assignment_details(assignment_id, student_id) ==
    LET req == [op |-> "get_assignment_details", id |-> assignment_id,
                student_id |-> student_id]
        \* FROM assignments a JOIN courses c ... JOIN users u ... WHERE a.id = %s
        found == {a \in assignments :
                    /\ a.id = assignment_id
                    /\ \E c \in courses : c.id = a.course_id /\ UserExists(c.instructor_id)}
    IN  /\ IF found = {}
           THEN \* raised before db.close(), passed on by `except HTTPException`
                Respond(req, 404, Detail("Assignment not found"), 1)
           ELSE LET assignment == CHOOSE a \in found : TRUE
                    mine == Submitted(assignment_id, student_id)
                    submission == IF mine # {} THEN CHOOSE x \in mine : TRUE ELSE NULL
                IN  IF student_id # NoId
                    THEN Respond(req, 200,
                                 [assignment |-> assignment, submission |-> submission], 0)
                    ELSE Respond(req, 200, [assignment |-> assignment], 0)
        /\ UNCHANGED <<tables, autoinc, disk, now, proc>>

\* delete_assignment without db.commit(): the DELETE is rolled back on close
delete_assignment_no_commit(assignment_id) ==
    LET req == [op |-> "delete_assignment", id |-> assignment_id] IN
    /\ Respond(req, 200, [success |-> TRUE], 0)
    /\ UNCHANGED <<tables, autoinc, disk, now, proc>>

\* DELETE /api/assignments/{assignment_id}
delete_assignment(assignment_id) ==
    LET req == [op |-> "delete_assignment", id |-> assignment_id] IN
    /\ assignments' = {a \in assignments : a.id # assignment_id}
    /\ submissions' = Cascade(assignment_id)
    /\ Respond(req, 200, [success |-> TRUE], 0)
    /\ UNCHANGED <<users, courses, enrollments, materials, announcements,
                   autoinc, disk, now, proc>>

\* submit_assignment whose ON DUPLICATE KEY UPDATE keeps the former file when
\* the new submit carries none
submit_assignment_keep_file(assignment_id, student_id, content, file) ==
    LET req == [op |-> "submit_assignment", id |-> assignment_id,
                student_id |-> student_id, content |-> content, file |-> file]
        path == Path("submissions", "submission", assignment_id, student_id, now, file)
        file_path == IF file # NoFile THEN Slash(path) ELSE NULL
        at == IF file # NoFile THEN now + 1 ELSE now
        prior == Submitted(assignment_id, student_id)
        id == autoinc.submissions + 1
    IN  /\ \A q \in Procs : LoopFree(q)
        /\ IF file # NoFile
           THEN /\ now < MaxTime
                /\ now' = now + 1
                /\ disk' = disk \cup {path}
           ELSE UNCHANGED <<disk, now>>
        /\ IF ~(\E a \in assignments : a.id = assignment_id) \/ ~UserExists(student_id)
           THEN /\ Respond(req, 500, Detail("foreign key constraint fails"), 1)
                /\ UNCHANGED <<submissions, autoinc>>
           ELSE /\ IF prior = {}
                   THEN /\ submissions' = submissions \cup
                                {[id |-> id, assignment_id |-> assignment_id,
                                  student_id |-> student_id, file_path |-> file_path,
                                  content |-> content, grade |-> NULL,
                                  feedback |-> NULL, submitted_at |-> at,
                                  graded_at |-> NULL]}
                        /\ autoinc' = [autoinc EXCEPT !.submissions = id]
                   ELSE /\ submissions' =
                                {IF s \in prior
                                 THEN [s EXCEPT !.file_path =
                                            IF file # NoFile THEN file_path ELSE @,
                                                !.content = content,
                                                !.submitted_at = at]
                                 ELSE s : s \in submissions}
                        /\ UNCHANGED autoinc
                /\ Respond(req, 200, [success |-> TRUE], 0)
        /\ UNCHANGED <<users, courses, enrollments, materials, announcements,
                       assignments, proc>>

\* submit_assignment that replaces a duplicate row by a fresh one (REPLACE INTO)
submit_assignment_replace(assignment_id, student_id, content, file) ==
    LET req == [op |-> "submit_assignment", id |-> assignment_id,
                student_id |-> student_id, content |-> content, file |-> file]
        path == Path("submissions", "submission", assignment_id, student_id, now, file)
        file_path == IF file # NoFile THEN Slash(path) ELSE NULL
        at == IF file # NoFile THEN now + 1 ELSE now
        prior == Submitted(assignment_id, student_id)
        id == autoinc.submissions + 1
    IN  /\ \A q \in Procs : LoopFree(q)
        /\ IF file # NoFile
           THEN /\ now < MaxTime
                /\ now' = now + 1
                /\ disk' = disk \cup {path}
           ELSE UNCHANGED <<disk, now>>
        /\ IF ~(\E a \in assignments : a.id = assignment_id) \/ ~UserExists(student_id)
           THEN /\ Respond(req, 500, Detail("foreign key constraint fails"), 1)
                /\ UNCHANGED <<submissions, autoinc>>
           ELSE /\ IF prior = {}
                   THEN /\ submissions' = submissions \cup
                                {[id |-> id, assignment_id |-> assignment_id,
                                  student_id |-> student_id, file_path |-> file_path,
                                  content |-> content, grade |-> NULL,
                                  feedback |-> NULL, submitted_at |-> at,
                                  graded_at |-> NULL]}
                        /\ autoinc' = [autoinc EXCEPT !.submissions = id]
                   ELSE /\ submissions' =
                                {IF s \in prior
                                 THEN [s EXCEPT !.file_path = file_path,
                                                !.content = content,
                                                !.submitted_at = at,
                                                !.grade = NULL, !.feedback = NULL,
                                                !.graded_at = NULL]
                                 ELSE s : s \in submissions}
                        /\ UNCHANGED autoinc
                /\ Respond(req, 200, [success |-> TRUE], 0)
        /\ UNCHANGED <<users, courses, enrollments, materials, announcements,
                       assignments, proc>>

\* POST /api/assignments/{assignment_id}/submit
submit_assignment(assignment_id, student_id, content, file) ==
    LET req == [op |-> "submit_assignment", id |-> assignment_id,
                student_id |-> student_id, content |-> content, file |-> file]
        path == Path("submissions", "submission", assignment_id, student_id, now, file)
        file_path == IF file # NoFile THEN Slash(path) ELSE NULL
        \* CURRENT_TIMESTAMP when the statement runs, after the file was written
        at == IF file # NoFile THEN now + 1 ELSE now
        prior == Submitted(assignment_id, student_id)
        id == autoinc.submissions + 1
    IN  /\ \A q \in Procs : LoopFree(q)
        /\ IF file # NoFile
           THEN /\ now < MaxTime
                /\ now' = now + 1
                /\ disk' = disk \cup {path}
           ELSE UNCHANGED <<disk, now>>
        /\ IF ~(\E a \in assignments : a.id = assignment_id) \/ ~UserExists(student_id)
           THEN \* IntegrityError (foreign key), caught by `except Exception`;
                \* a file written above stays
                /\ Respond(req, 500, Detail("foreign key constraint fails"), 1)
                /\ UNCHANGED <<submissions, autoinc>>
           ELSE /\ IF prior = {}
                   THEN /\ submissions' = submissions \cup
                                {[id |-> id, assignment_id |-> assignment_id,
                                  student_id |-> student_id, file_path |-> file_path,
                                  content |-> content, grade |-> NULL,
                                  feedback |-> NULL, submitted_at |-> at,
                                  graded_at |-> NULL]}
                        /\ autoinc' = [autoinc EXCEPT !.submissions = id]
                   ELSE \* ON DUPLICATE KEY UPDATE
                        /\ submissions' =
                                {IF s \in prior
                                 THEN [s EXCEPT !.file_path = file_path,
                                                !.content = content,
                                                !.submitted_at = at]
                                 ELSE s : s \in submissions}
                        /\ UNCHANGED autoinc
                /\ Respond(req, 200, [success |-> TRUE], 0)
        /\ UNCHANGED <<users, courses, enrollments, materials, announcements,
                       assignments, proc>>

\* two users, one course with one assignment, then submits over time
NextSubmit ==
    \/ \E user \in CourseRegisters : register(user)
    \/ \E course \in Courses : courses = {} /\ create_course(course, 1)
    \/ assignments = {} /\ create_assignment(1, "t1", "d1", NULL, NoFile)
    \/ \E student_id \in UserIds, content \in Contents, file \in AssignmentFiles :
            submit_assignment(1, student_id, content, file)
    \/ Tick

SpecSubmit == Init /\ [][NextSubmit]_vars

\* the rows a grade_submission request can name: one per student of the one
\* assignment, and one id more that no row carries
SubmissionIds == 1 .. Cardinality(Emails) + 1

\* a value held by a column that can also hold NULL, or by an Optional field
NotNull(v) == [value |-> v]

\* GradeSubmission(grade: float, feedback: Optional[str] = None)
Grades == {[grade |-> 55, feedback |-> NULL],
           [grade |-> 90, feedback |-> NotNull("good")]}

\* the forms a student submits: some text with a file, or neither
SubmitForms == {[content |-> "", file |-> NoFile],
                [content |-> "text", file |-> [stem |-> "notes", ext |-> ".PDF"]]}

\* POST /api/submissions/{submission_id}/grade
grade_submission(submission_id, grade_data) ==
    LET req == [op |-> "grade_submission", id |-> submission_id,
                grade_data |-> grade_data]
    IN  \* UPDATE submissions SET grade, feedback, graded_at = CURRENT_TIMESTAMP
        \* WHERE id: no row, no change, and the same answer
        /\ submissions' =
                {IF s.id = submission_id
                 THEN [s EXCEPT !.grade = NotNull(grade_data.grade),
                                !.feedback = grade_data.feedback,
                                !.graded_at = NotNull(now)]
                 ELSE s : s \in submissions}
        /\ Respond(req, 200, [success |-> TRUE], 0)
        /\ UNCHANGED <<users, courses, enrollments, materials, announcements,
                       assignments, autoinc, disk, now, proc>>

\* two users, one course with one assignment, submits, grades and resubmits;
\* the clock advances with every file written
NextGrade ==
    \/ \E user \in CourseRegisters : register(user)
    \/ \E course \in Courses : courses = {} /\ create_course(course, 1)
    \/ assignments = {} /\ create_assignment(1, "t1", "d1", NULL, NoFile)
    \/ \E student_id \in UserIds, form \in SubmitForms :
            submit_assignment(1, student_id, form.content, form.file)
    \/ \E submission_id \in SubmissionIds, grade_data \in Grades :
            grade_submission(submission_id, grade_data)

SpecGrade == Init /\ [][NextGrade]_vars

\* assignments created with and without instruction file, submitted to, deleted
NextAssign ==
    \/ \E user \in OwnerRegisters : register(user)
    \/ \E course \in Courses : courses = {} /\ create_course(course, 1)
    \/ \E file \in AssignmentFiles : create_assignment(1, "t1", "d1", NULL, file)
    \/ \E assignment_id \in AssignmentIds, file \in AssignmentFiles :
            submit_assignment(assignment_id, 1, "text", file)
    \/ \E assignment_id \in AssignmentIds : delete_assignment(assignment_id)

SpecAssign == Init /\ [][NextAssign]_vars

\* the three handlers that write an uploaded file, before and after the rows
\* their inserts refer to exist
NextUpload ==
    \/ \E user \in OwnerRegisters : register(user)
    \/ \E course \in Courses : courses = {} /\ create_course(course, 1)
    \/ \E file \in UploadFiles : upload_material(1, "t1", file)
    \/ \E file \in AssignmentFiles : create_assignment(1, "t1", "d1", NULL, file)
    \/ \E file \in AssignmentFiles : submit_assignment(1, 1, "text", file)

SpecUpload == Init /\ [][NextUpload]_vars

(* ------------------------------ announcements, fetches ---------------- *)

Announcements == [title : {"t1"}, content : {"text"}]

\* POST /api/courses/{course_id}/announcements
create_announcement(course_id, announcement) ==
    LET req == [op |-> "create_announcement", course_id |-> course_id,
                announcement |-> announcement]
        id == autoinc.announcements + 1
    IN  /\ autoinc.announcements < MaxAnnouncements
        /\ IF ~CourseExists(course_id)
           THEN \* IntegrityError (foreign key), caught by `except Exception`
                /\ Respond(req, 500, Detail("foreign key constraint fails"), 1)
                /\ UNCHANGED <<announcements, autoinc>>
           ELSE /\ announcements' = announcements \cup
                        {[id |-> id, course_id |-> course_id,
                          title |-> announcement.title,
                          content |-> announcement.content, created_at |-> now]}
                /\ autoinc' = [autoinc EXCEPT !.announcements = id]
                /\ Respond(req, 200, [success |-> TRUE], 0)
        /\ UNCHANGED <<users, courses, enrollments, materials, assignments,
                       submissions, disk, now, proc>>

\* GET /api/announcements/{announcement_id}
get_announcement(announcement_id) ==
    LET req == [op |-> "get_announcement", id |-> announcement_id]
        found == {a \in announcements : a.id = announcement_id}
    IN  /\ IF found # {}
           THEN Respond(req, 200, CHOOSE a \in found : TRUE, 0)
           ELSE Respond(req, 404, Detail("Announcement not found"), 0)
        /\ UNCHANGED <<tables, autoinc, disk, now, proc>>

\* DELETE /api/announcements/{announcement_id}
delete_announcement(announcement_id) ==
    LET req == [op |-> "delete_announcement", id |-> announcement_id] IN
    /\ announcements' = {a \in announcements : a.id # announcement_id}
    /\ Respond(req, 200, [success |-> TRUE], 0)
    /\ UNCHANGED <<users, courses, enrollments, materials, assignments,
                   submissions, autoinc, disk, now, proc>>

NextFetch ==
    \/ \E user \in OwnerRegisters : register(user)
    \/ \E course \in Courses : courses = {} /\ create_course(course, 1)
    \/ create_assignment(1, "t1", "d1", NULL, NoFile)
    \/ \E assignment_id \in AssignmentIds : submit_assignment(assignment_id, 1, "text", NoFile)
    \/ \E assignment_id \in AssignmentIds, student_id \in {NoId} \cup UserIds :
            get_assignment_details(assignment_id, student_id)
    \/ \E course_id \in CourseIds, announcement \in Announcements :
            create_announcement(course_id, announcement)
    \/ \E announcement_id \in AnnouncementIds : get_announcement(announcement_id)
    \/ \E announcement_id \in AnnouncementIds : delete_announcement(announcement_id)

SpecFetch == Init /\ [][NextFetch]_vars

(* ------------------------------ the whole application ----------------- *)

Next == NextAuth \/ NextCourse \/ NextMaterial \/ NextSubmit \/ NextGrade \/ NextAssign
            \/ NextUpload \/ NextFetch

Spec == Init /\ [][Next]_vars

(* ------------------------------ claims: accounts ---------------------- *)

\* A step in which a handler of the given operation sent its response.
Completes(op) == resp'.seq # resp.seq /\ resp'.req.op = op

\* C1: the first register of an email succeeds and adds exactly one user row
\* carrying that email; a register of an email that already has a row returns
\* 400 (not 500) and leaves the users table as it was; no two user rows ever
\* share an email.
C1_RegisterOncePerEmail ==
    /\ [](\A u1, u2 \in users : u1.email = u2.email => u1 = u2)
    /\ [][Completes("register") =>
            LET email == resp'.req.user.email IN
            IF \E u \in users : u.email = email
            THEN resp'.status = 400 /\ users' = users
            ELSE /\ resp'.status = 200
                 /\ \E u \in users' : /\ u.email = email
                                      /\ u \notin users
                                      /\ users' = users \cup {u}]_vars

\* C1 witness: both emails are registered and a further register was refused.
C1_Witness ==
    /\ resp.req.op = "register"
    /\ resp.status = 400
    /\ Cardinality(users) = 2

\* C2: login answers 401 when no stored user has the email, or the stored user
\* of that email has another password digest, and otherwise answers 200 with
\* that user's id, email, full_name, role and profile_picture and no password.
C2_Login ==
    resp.req.op = "login" =>
        LET match == {u \in users : /\ u.email = resp.req.user.email
                                    /\ u.password = [sha256 |-> resp.req.user.password]}
        IN  IF match = {}
            THEN resp.status = 401
            ELSE /\ resp.status = 200
                 /\ DOMAIN resp.body.user =
                        {"id", "email", "full_name", "role", "profile_picture"}
                 /\ \E u \in match :
                        /\ resp.body.user.id = u.id
                        /\ resp.body.user.email = u.email
                        /\ resp.body.user.full_name = u.full_name
                        /\ resp.body.user.role = u.role
                        /\ resp.body.user.profile_picture = u.profile_picture

\* C2 witness: a login succeeded for a user whose profile was updated with a
\* new name and a picture, while another user exists.
C2_Witness ==
    /\ resp.req.op = "login"
    /\ resp.status = 200
    /\ resp.body.user.full_name = "Bob"
    /\ resp.body.user.profile_picture # NULL
    /\ Cardinality(users) = 2

\* C2 witness of the refusals: a login with a registered email and a wrong
\* password was answered 401.
C2_WitnessWrongPassword ==
    /\ resp.req.op = "login"
    /\ resp.status = 401
    /\ \E u \in users : u.email = resp.req.user.email
(* ------------------------------ claims: courses ----------------------- *)

\* C3: no two enrollment rows share (course_id, student_id), however the
\* requests interleave; an enroll_course for a pair that already has a row is
\* answered 400 and adds nothing; one answered 200 added exactly the row of a
\* pair that had none; and for an existing course and user without a row the
\* request that completes is answered 200, so of the requests for one pair
\* exactly one succeeds.
C3_EnrollOncePerPair ==
    /\ [](\A e1, e2 \in enrollments :
            (e1.course_id = e2.course_id /\ e1.student_id = e2.student_id) => e1 = e2)
    /\ [][Completes("enroll_course") =>
            LET c == resp'.req.course_id
                s == resp'.req.student_id
                had == \E e \in enrollments : e.course_id = c /\ e.student_id = s
            IN  /\ resp'.status \in {200, 400}
                /\ had => resp'.status = 400
                /\ resp'.status = 400 => enrollments' = enrollments
                /\ resp'.status = 200 =>
                        /\ ~had
                        /\ \E e \in enrollments' :
                                /\ e.course_id = c /\ e.student_id = s
                                /\ enrollments' = enrollments \cup {e}
                /\ (~had /\ (\E k \in courses : k.id = c) /\ (\E u \in users : u.id = s))
                        => resp'.status = 200]_vars

\* C3 witness: of two requests in flight for one pair, one has committed and
\* was answered 200 while the other has still to run its INSERT.
C3_Witness ==
    /\ resp.req.op = "enroll_course"
    /\ resp.status = 200
    /\ \E q \in Procs :
            /\ proc[q].pc = "execute"
            /\ proc[q].course_id = resp.req.course_id
            /\ proc[q].student_id = resp.req.student_id

\* C3 witness of the refusal: the second request of a pair was answered 400.
C3_WitnessConflict ==
    /\ resp.req.op = "enroll_course"
    /\ resp.status = 400
    /\ \E e \in enrollments : /\ e.course_id = resp.req.course_id
                              /\ e.student_id = resp.req.student_id

\* C6 as stated: get_course on an existing course answers is_instructor=true
\* and is_enrolled=false to its instructor, is_enrolled=true to a user with an
\* enrollment row, and both flags false when no user id is supplied.
C6_FlagsAsStated ==
    [][Completes("get_course") =>
        \A c \in courses : c.id = resp'.req.id =>
            LET u == resp'.req.user_id IN
            /\ resp'.status = 200
            /\ (u # 0 /\ c.instructor_id = u) =>
                    (resp'.body.is_instructor /\ ~resp'.body.is_enrolled)
            /\ (u # 0 /\ \E e \in enrollments : e.course_id = c.id /\ e.student_id = u) =>
                    resp'.body.is_enrolled
            /\ u = 0 => (~resp'.body.is_instructor /\ ~resp'.body.is_enrolled)]_vars

\* C6 amended: is_instructor is true exactly for the course's instructor,
\* is_enrolled is true exactly for a user with an enrollment row (the
\* instructor included, when the instructor has enrolled), and both are false
\* when no user id is supplied.
C6_Flags ==
    [][Completes("get_course") =>
        \A c \in courses : c.id = resp'.req.id =>
            LET u == resp'.req.user_id IN
            /\ resp'.status = 200
            /\ resp'.body.is_instructor = (u # 0 /\ c.instructor_id = u)
            /\ resp'.body.is_enrolled =
                    (u # 0 /\ \E e \in enrollments : e.course_id = c.id /\ e.student_id = u)]_vars

\* C6 witness: the course was fetched by its instructor, who has enrolled.
C6_Witness ==
    /\ resp.req.op = "get_course"
    /\ resp.status = 200
    /\ resp.body.is_instructor
    /\ resp.body.is_enrolled
    /\ resp.req.user_id = resp.body.instructor_id

(* ------------------------------ claims: materials --------------------- *)

\* C5: when delete_material(m) answers success for a material it found, no
\* row has id m and the file named by the file_path it read is not on disk;
\* its steps remove nothing but that row and that file; an id without a row
\* never gets one again, and get_material of an id without a row answers 404.
C5_DeleteMaterial ==
    /\ [][\A p \in Procs :
            (proc[p].op = "delete_material" /\ proc'[p] # proc[p]) =>
                LET m == proc[p].req.id IN
                /\ \A r \in materials : r.id # m => r \in materials'
                /\ materials' \subseteq materials
                /\ disk' \subseteq disk
                /\ disk \ disk' \subseteq {proc[p].file_path}
                /\ (proc'[p] = Idle /\ resp'.status = 200) =>
                        /\ ~\E r \in materials' : r.id = m
                        /\ proc[p].file_path \notin disk']_vars
    /\ [][\A m \in MaterialIds :
            (m <= autoinc.materials /\ ~\E r \in materials : r.id = m) =>
                ~\E r \in materials' : r.id = m]_vars
    /\ [][(Completes("get_material") /\ ~\E r \in materials : r.id = resp'.req.id) =>
                resp'.status = 404]_vars

\* The stricter reading of C5: the file named by the row at the moment the
\* row is deleted is not on disk.
C5_RowFileGone ==
    [][\A p \in Procs :
        (proc[p].op = "delete_material" /\ proc'[p] = Idle /\ resp'.status = 200) =>
            \A r \in materials : r.id = proc[p].req.id => lstrip(r.file_path) \notin disk']_vars

\* C5 witness: material 1 was deleted, with its file, while material 2 and
\* its file are still there, and a fetch of material 1 was answered 404.
C5_Witness ==
    /\ resp.req.op = "get_material"
    /\ resp.req.id = 1
    /\ resp.status = 404
    /\ autoinc.materials = 2
    /\ \A r \in materials : r.id = 2 /\ lstrip(r.file_path) \in disk
    /\ Cardinality(materials) = 1
    /\ Cardinality(disk) = 1

(* ------------------------------ claims: assignments ------------------- *)

\* C4: no two submission rows share (assignment_id, student_id); a submit for
\* a pair that has a row is accepted, adds no row and leaves in that row the
\* content of this submit, the path of the file this submit wrote (NULL when
\* it carried no file) and the current time as submitted_at; a submit for a
\* pair without a row adds exactly one row.
C4_SubmitUpsert ==
    /\ [](\A s1, s2 \in submissions :
            (s1.assignment_id = s2.assignment_id /\ s1.student_id = s2.student_id)
                => s1 = s2)
    /\ [][Completes("submit_assignment") =>
            LET req == resp'.req
                prior == {s \in submissions : /\ s.assignment_id = req.id
                                              /\ s.student_id = req.student_id}
            IN  /\ prior # {} => resp'.status = 200
                /\ resp'.status # 200 => submissions' = submissions
                /\ (resp'.status = 200 /\ prior = {}) =>
                        \E new \in submissions' :
                            /\ new \notin submissions
                            /\ new.assignment_id = req.id
                            /\ new.student_id = req.student_id
                            /\ submissions' = submissions \cup {new}
                /\ (resp'.status = 200 /\ prior # {}) =>
                        \E old \in prior, new \in submissions' :
                            /\ submissions' = (submissions \ {old}) \cup {new}
                            /\ Cardinality(submissions') = Cardinality(submissions)
                            /\ new.id = old.id
                            /\ new.assignment_id = req.id
                            /\ new.student_id = req.student_id
                            /\ new.content = req.content
                            /\ new.submitted_at = now'
                            /\ IF req.file = NoFile
                               THEN new.file_path = NULL
                               ELSE /\ new.file_path # NULL
                                    /\ new.file_path.lead = 1
                                    /\ [new.file_path EXCEPT !.lead = 0] \in disk' \ disk
                                    /\ new.file_path.stem = req.file.stem
                                    /\ new.file_path.ext = req.file.ext]_vars

\* C4 witness: a pair that had submitted a file and some text has submitted
\* again, later, without file and with other text; its one row now has no
\* file_path, the new text and the later time.
C4_Witness ==
    /\ resp.req.op = "submit_assignment"
    /\ resp.status = 200
    /\ resp.req.file = NoFile
    /\ resp.req.content = ""
    /\ \E f \in disk : /\ f.prefix = "submission"
                       /\ f.a = resp.req.id
                       /\ f.b = resp.req.student_id
    /\ \E s \in submissions : /\ s.assignment_id = resp.req.id
                              /\ s.student_id = resp.req.student_id
                              /\ s.file_path = NULL
                              /\ s.submitted_at = MaxTime

\* C9: delete_assignment(a) is accepted and leaves no assignment row with id
\* a and no submission row of assignment a; every other assignment and every
\* submission of another assignment stays as it was.
C9_DeleteCascade ==
    [][Completes("delete_assignment") =>
        LET a == resp'.req.id IN
        /\ resp'.status = 200
        /\ ~\E x \in assignments' : x.id = a
        /\ ~\E s \in submissions' : s.assignment_id = a
        /\ assignments' = {x \in assignments : x.id # a}
        /\ submissions' = {s \in submissions : s.assignment_id # a}]_vars

\* C9 witness: of two assignments with one submission each, one was deleted
\* with its submission, and the other and its submission are still there.
C9_Witness ==
    /\ resp.req.op = "delete_assignment"
    /\ resp.status = 200
    /\ autoinc.assignments = 2
    /\ autoinc.submissions = 2
    /\ \E x \in assignments : x.id # resp.req.id
    /\ \E s \in submissions : s.assignment_id # resp.req.id
    /\ ~\E x \in assignments : x.id = resp.req.id
    /\ Cardinality(submissions) = 1

\* C10: every instruction file on disk belongs to an assignment row: deleting
\* an assignment leaves no orphaned instruction file.
C10_NoOrphanedInstructionFile ==
    \A f \in disk :
        f.prefix = "assignment" =>
            \E x \in assignments : /\ x.instruction_file # NULL
                                   /\ [x.instruction_file EXCEPT !.lead = 0] = f

(* ------------------------------ claims: errors ------------------------ *)

\* C7: a single-resource fetch of an id that has no row is answered 404.
C7_FetchNotFound ==
    LET missing(table) == ~\E row \in table : row.id = resp.req.id IN
    /\ (resp.req.op = "get_profile" /\ missing(users)) => resp.status = 404
    /\ (resp.req.op = "get_course" /\ missing(courses)) => resp.status = 404
    /\ (resp.req.op = "get_material" /\ missing(materials)) => resp.status = 404
    /\ (resp.req.op = "get_announcement" /\ missing(announcements)) => resp.status = 404
    /\ (resp.req.op = "get_assignment_details" /\ missing(assignments)) => resp.status = 404

\* C8: a handler that has answered holds no open database connection.
C8_ConnectionReleased ==
    resp.req.op # "none" => resp.conn = 0

(* ------------------------------ claims: update_material -------------- *)

\* C11: when update_material(m) with a file answers success and the row of m
\* is there, the file at the row's old file_path is not on disk (whether or
\* not it was there before), the new file is on disk, and the row differs
\* from what it was in title, file_path and file_type only, which are those
\* of the request and of the new file; with no file the row differs in title
\* only and no step of the handler changes the disk; update_material of an
\* id without a row answers 404 and changes neither the tables nor the disk,
\* and only an id with a row gets past the lookup.
C11_UpdateMaterial ==
    /\ [][\A p \in Procs :
            (proc[p].op = "update_material" /\ proc'[p] = Idle /\ resp'.status = 200) =>
                LET req == proc[p].req IN
                \A m \in materials : m.id = req.id =>
                    IF req.file # NoFile
                    THEN \E ts \in 0 .. MaxTime :
                            LET new == Path("materials", "material", m.course_id, 0,
                                            ts, req.file)
                            IN  /\ new # lstrip(m.file_path)
                                /\ lstrip(m.file_path) \notin disk'
                                /\ new \in disk'
                                /\ materials' = (materials \ {m}) \cup
                                        {[m EXCEPT !.title = req.title,
                                                   !.file_path = Slash(new),
                                                   !.file_type = FileType(req.file)]}
                    ELSE /\ materials' = (materials \ {m}) \cup
                                {[m EXCEPT !.title = req.title]}
                         /\ disk' = disk]_vars
    /\ [][\A p \in Procs :
            (proc[p].op # "update_material" /\ proc'[p].op = "update_material") =>
                /\ proc[p] = Idle
                /\ \E m \in materials : m.id = proc'[p].req.id
                /\ UNCHANGED <<tables, disk>>]_vars
    /\ [][\A p \in Procs :
            (proc'[p] # proc[p] /\ proc[p].op = "update_material"
                /\ proc[p].req.file = NoFile) => disk' = disk]_vars
    /\ [][(Completes("update_material") /\ proc' = proc) =>
                /\ resp'.status = 404
                /\ ~\E m \in materials : m.id = resp'.req.id
                /\ UNCHANGED <<tables, disk>>]_vars
    /\ [][(Completes("update_material") /\ resp'.status = 404) =>
                /\ ~\E m \in materials : m.id = resp'.req.id
                /\ UNCHANGED <<tables, disk>>]_vars

\* C11 witness: an update with the file clip.mp4 was answered success; the
\* row carries the new title, the type video and the path of clip.mp4, which
\* is the only file on disk: the uploaded notes.PDF is gone.
C11_Witness ==
    /\ resp.req.op = "update_material"
    /\ resp.status = 200
    /\ resp.req.file = [stem |-> "clip", ext |-> ".mp4"]
    /\ \E m \in materials :
            /\ m.id = resp.req.id
            /\ m.title = "t2"
            /\ m.file_type = "video"
            /\ m.file_path.stem = "clip"
            /\ m.file_path.lead = 1
            /\ disk = {lstrip(m.file_path)}

\* An update without a file was answered success: the row has the new title
\* and still names the uploaded file, which is still on disk.
C11_WitnessNoFile ==
    /\ resp.req.op = "update_material"
    /\ resp.status = 200
    /\ resp.req.file = NoFile
    /\ \E m \in materials :
            /\ m.id = resp.req.id
            /\ m.title = "t2"
            /\ m.file_type = "pdf"
            /\ m.file_path.stem = "notes"
            /\ lstrip(m.file_path) \in disk

\* An update of an id without a row was answered 404 while another material
\* and its file were there.
C11_WitnessNotFound ==
    /\ resp.req.op = "update_material"
    /\ resp.status = 404
    /\ materials # {}
    /\ disk # {}

\* An update with a file is past the lookup and the old file is not on disk.
C11_WitnessOldFileAbsent ==
    \E p \in Procs :
        /\ proc[p].op = "update_material"
        /\ proc[p].pc = "write"
        /\ proc[p].old_file_path \notin disk
        /\ \A q \in Procs \ {p} : proc[q] = Idle
        /\ resp.req.op = "update_material"
        /\ resp.status = 500

(* ------------------------------ claims: grading ---------------------- *)

\* C12: a submit_assignment for a pair that has a row leaves every other row
\* as it was and changes in that row nothing but file_path, content and
\* submitted_at: id, assignment_id, student_id, grade, feedback and graded_at
\* keep their values; grade_submission(id) leaves every other row as it was,
\* sets grade and feedback of the row with that id to those of the request
\* and graded_at to the current time, keeps its other columns, and changes
\* no row when no row has that id.
C12_ResubmitKeepsGrade ==
    /\ [][Completes("submit_assignment") =>
            LET req == resp'.req IN
            \A old \in submissions :
                IF old.assignment_id = req.id /\ old.student_id = req.student_id
                THEN \E new \in submissions' :
                        /\ submissions' = (submissions \ {old}) \cup {new}
                        /\ new = [old EXCEPT !.file_path = new.file_path,
                                              !.content = new.content,
                                              !.submitted_at = new.submitted_at]
                ELSE old \in submissions']_vars
    /\ [][Completes("grade_submission") =>
            LET req == resp'.req IN
            /\ resp'.status = 200
            /\ UNCHANGED <<users, courses, enrollments, materials, announcements,
                           assignments, disk>>
            /\ Cardinality(submissions') = Cardinality(submissions)
            /\ (~\E s \in submissions : s.id = req.id) => submissions' = submissions
            /\ \A old \in submissions :
                    IF old.id = req.id
                    THEN [old EXCEPT !.grade = NotNull(req.grade_data.grade),
                                     !.feedback = req.grade_data.feedback,
                                     !.graded_at = NotNull(now')] \in submissions'
                    ELSE old \in submissions']_vars

\* C12 witness: a submission was graded 90 "good" and then submitted again
\* with a file: its row carries the file and the later submitted_at, and
\* still the grade, the feedback and the earlier graded_at.
C12_Witness ==
    /\ resp.req.op = "submit_assignment"
    /\ resp.status = 200
    /\ resp.req.file # NoFile
    /\ \E s \in submissions :
            /\ s.assignment_id = resp.req.id
            /\ s.student_id = resp.req.student_id
            /\ s.content = "text"
            /\ s.file_path # NULL
            /\ s.grade = NotNull(90)
            /\ s.feedback = NotNull("good")
            /\ s.graded_at # NULL
            /\ s.graded_at.value < s.submitted_at

\* A grade_submission of an id without a row was answered success while a
\* graded row and an ungraded row were there.
C12_WitnessNoRow ==
    /\ resp.req.op = "grade_submission"
    /\ resp.status = 200
    /\ ~\E s \in submissions : s.id = resp.req.id
    /\ \E s \in submissions : s.grade = NULL
    /\ \E s \in submissions : s.grade # NULL

(* ------------------------------ claims: uploads ----------------------- *)

\* C13: an upload_material whose course has no row, and a submit_assignment
\* with a file whose assignment or student has no row, is answered 500; it
\* leaves every table and counter as it was and the disk with exactly one
\* file more, the one it wrote, written once; these handlers answer 500 in
\* no other case. A create_assignment whose course has no row is answered
\* 404 and leaves the tables, the disk and the clock as they were, with or
\* without an instruction file in the request.
C13_WriteThenInsertFails ==
    /\ [][Completes("upload_material") =>
            LET req == resp'.req IN
            /\ resp'.status = 500 <=> ~CourseExists(req.course_id)
            /\ resp'.status = 500 =>
                    /\ UNCHANGED <<tables, autoinc>>
                    /\ now' = now + 1
                    /\ \E f \in disk' \ disk :
                            /\ disk' = disk \cup {f}
                            /\ f = Path("materials", "material", req.course_id, 0,
                                        now, req.file)]_vars
    /\ [][Completes("submit_assignment") =>
            LET req == resp'.req IN
            /\ resp'.status = 500 <=>
                    \/ ~\E a \in assignments : a.id = req.id
                    \/ ~UserExists(req.student_id)
            /\ resp'.status = 500 =>
                    /\ UNCHANGED <<tables, autoinc>>
                    /\ IF req.file = NoFile
                       THEN UNCHANGED <<disk, now>>
                       ELSE /\ now' = now + 1
                            /\ \E f \in disk' \ disk :
                                    /\ disk' = disk \cup {f}
                                    /\ f = Path("submissions", "submission", req.id,
                                                req.student_id, now, req.file)]_vars
    /\ [][Completes("create_assignment") =>
            LET req == resp'.req IN
            /\ resp'.status = 404 <=> ~CourseExists(req.course_id)
            /\ resp'.status = 404 => UNCHANGED <<tables, autoinc, disk, now>>]_vars

\* C13 witness: a submit_assignment with a file for an assignment without a
\* row was answered 500 after an upload_material for a course without a row:
\* no material, no submission, and both written files on disk.
C13_Witness ==
    /\ resp.req.op = "submit_assignment"
    /\ resp.status = 500
    /\ resp.req.file # NoFile
    /\ materials = {}
    /\ submissions = {}
    /\ \E f \in disk : f.prefix = "material"
    /\ \E f \in disk : f.prefix = "submission" /\ f.a = resp.req.id
    /\ Cardinality(disk) = 2

\* A create_assignment with an instruction file for a course without a row
\* was answered 404 after a failed upload: no assignment, and the only file
\* on disk is the one the upload left.
C13_WitnessNotFound ==
    /\ resp.req.op = "create_assignment"
    /\ resp.status = 404
    /\ resp.req.file # NoFile
    /\ assignments = {}
    /\ Cardinality(disk) = 1
    /\ \A f \in disk : f.prefix = "material"

(* ------------------------------ claims: files of material rows -------- *)

\* C14: in every reachable state the file_path of every material row names
\* a file that is on disk.
C14_MaterialFilesOnDisk ==
    \A m \in materials : lstrip(m.file_path) \in disk

\* The same for the states in which no request is part-way through a
\* handler: it fails there as well, after an update_material whose file
\* could not be written.
C14_MaterialFilesOnDiskAtRest ==
    (\A p \in Procs : proc[p] = Idle) => C14_MaterialFilesOnDisk

\* What upload_material establishes: when it answers success, the row it
\* added names a file that is on disk.
C14_UploadedFileOnDisk ==
    [][Completes("upload_material") /\ resp'.status = 200 =>
            \E m \in materials' \ materials : lstrip(m.file_path) \in disk']_vars

====
